---- MODULE Spec2Model ----
(***************************************************************************)
(* Model of scripts/compare.py: the benchmark comparison script.  One run  *)
(* of the script is a linear pipeline: read the reference csv, read the     *)
(* result csv, outer-merge them on Name with one_to_one validation, derive  *)
(* Speedup_rel, print the SLOWER block, print the FASTER block.             *)
(*                                                                         *)
(* Numbers.  The script computes in IEEE-754 binary64.  A float is modelled *)
(* as a record [kind, n, d]: kind "num" is the rational n/d in lowest terms *)
(* with d > 0, and "nan", "pinf", "ninf" are NaN, +inf and -inf.  The means *)
(* of the model are small integers, which binary64 holds exactly; their     *)
(* difference is exact, the quotient is correctly rounded, rounding is      *)
(* monotone, and a quotient of integers of magnitude below 2^20 that is not *)
(* 1/5 differs from 1/5 by far more than one ulp, so comparing the rational *)
(* with 1/5 decides exactly as binary64 decides against the literal 0.2.    *)
(* read_csv parses the cell "0" as the integer 0, hence a positive zero.    *)
(***************************************************************************)
EXTENDS Integers, Sequences, FiniteSets

\* ---- bounds of the model ------------------------------------------------
\* Largest number of data rows of one csv file.
MaxLen == 2
\* Largest number of command line arguments after the script name.
MaxArgs == 3

\* Benchmark names that occur in the files.
Names == {"a", "b"}
\* Means that occur in the files: a negative one, zero, and 4, 5, 6, which
\* differ from each other by less than, exactly and more than 20%.
Means == {-5, 0, 4, 5, 6}

VARIABLES pc, argc, ref, res, comp, stdout, err

vars == <<pc, argc, ref, res, comp, stdout, err>>

\* ---- binary64 values ------------------------------------------------------
Abs(x) == IF x < 0 THEN -x ELSE x

RECURSIVE GCD(_, _)
GCD(a, b) == IF b = 0 THEN a ELSE GCD(b, a % b)

NaN == [kind |-> "nan", n |-> 0, d |-> 1]
PInf == [kind |-> "pinf", n |-> 0, d |-> 1]
NInf == [kind |-> "ninf", n |-> 0, d |-> 1]

\* The finite value n/d (d # 0), in lowest terms with a positive denominator.
Num(n, d) ==
  LET g == GCD(Abs(n), Abs(d))
      s == IF d < 0 THEN -1 ELSE 1
  IN [kind |-> "num", n |-> (s * n) \div g, d |-> (s * d) \div g]

FNeg(x) ==
  CASE x.kind = "nan" -> NaN
    [] x.kind = "pinf" -> NInf
    [] x.kind = "ninf" -> PInf
    [] OTHER -> Num(-x.n, x.d)

\* x - y
FSub(x, y) ==
  CASE x.kind = "nan" \/ y.kind = "nan" -> NaN
    [] x.kind = "num" /\ y.kind = "num" -> Num(x.n * y.d - y.n * x.d, x.d * y.d)
    [] x.kind = "num" -> FNeg(y)
    [] y.kind = "num" -> x
    [] x.kind = y.kind -> NaN
    [] OTHER -> x

\* Variant of FDiv: every division by zero gives NaN.
FDivMutNullOnZero(x, y) ==
  CASE x.kind = "nan" \/ y.kind = "nan" -> NaN
    [] x.kind = "num" /\ y.kind = "num" ->
         IF y.n = 0 THEN NaN ELSE Num(x.n * y.d, x.d * y.n)
    [] x.kind = "num" -> Num(0, 1)
    [] y.kind = "num" -> IF y.n >= 0 THEN x ELSE FNeg(x)
    [] OTHER -> NaN

\* x / y: a finite non-zero value over zero is an infinity, 0/0 is NaN.
FDiv(x, y) ==
  CASE x.kind = "nan" \/ y.kind = "nan" -> NaN
    [] x.kind = "num" /\ y.kind = "num" ->
         IF y.n = 0
           THEN (IF x.n = 0 THEN NaN ELSE IF x.n > 0 THEN PInf ELSE NInf)
           ELSE Num(x.n * y.d, x.d * y.n)
    [] x.kind = "num" -> Num(0, 1)
    [] y.kind = "num" -> IF y.n >= 0 THEN x ELSE FNeg(x)
    [] OTHER -> NaN

\* x < y: every comparison with NaN is false.
FLt(x, y) ==
  CASE x.kind = "nan" \/ y.kind = "nan" -> FALSE
    [] x.kind = "num" /\ y.kind = "num" -> x.n * y.d < y.n * x.d
    [] x.kind = "ninf" -> y.kind # "ninf"
    [] y.kind = "pinf" -> x.kind # "pinf"
    [] OTHER -> FALSE

\* x > y
FGt(x, y) == FLt(y, x)

\* Variant of SIGNIFICANT: a threshold of 0.25.
SIGNIFICANTMutQuarter == Num(1, 4)

\* SIGNIFICANT = 0.2
SIGNIFICANT == Num(1, 5)

\* ---- sequences -------------------------------------------------------------
Range(s) == {s[i] : i \in DOMAIN s}

RECURSIVE Dedup(_)
\* The elements of s in order of first appearance.
Dedup(s) ==
  IF s = <<>> THEN <<>>
  ELSE LET front == Dedup(SubSeq(s, 1, Len(s) - 1))
           last == s[Len(s)]
       IN IF last \in Range(front) THEN front ELSE Append(front, last)

RECURSIVE Flatten(_)
Flatten(ss) == IF ss = <<>> THEN <<>> ELSE Head(ss) \o Flatten(Tail(ss))

\* ---- the csv files ---------------------------------------------------------
\* The data frames read_csv can return: rows with the columns Name and Mean.
Frames ==
  UNION {[1..n -> [Name : Names, Mean : {Num(m, 1) : m \in Means}]] : n \in 0..MaxLen}

NameCol(df) == [i \in DOMAIN df |-> df[i].Name]

\* argv[i] exists (argv[0] is the script).
\* Variant of HasArg: the argument count is taken to include the script.
HasArgMutOffByOne(i) == argc >= i - 1

HasArg(i) == argc >= i

\* ---- pd.merge ---------------------------------------------------------------
\* validate='one_to_one': the merge keys are unique in both frames.
IsUnique(df) == Cardinality(Range(NameCol(df))) = Len(df)

\* Variant of Validate: the merge without validate=.
ValidateMutSkipped(l, r) == TRUE

Validate(l, r) == IsUnique(l) /\ IsUnique(r)

\* The rows of the join for one key: the cross product of the key's rows of
\* both sides, or the rows of the one side with the other side's columns NaN.
KeyRows(k, l, r) ==
  LET IsK(row) == row.Name = k
      L == SelectSeq(l, IsK)
      R == SelectSeq(r, IsK)
  IN IF L = <<>>
       THEN [i \in 1..Len(R) |-> [Name |-> k, Mean_ref |-> NaN, Mean_res |-> R[i].Mean]]
     ELSE IF R = <<>>
       THEN [i \in 1..Len(L) |-> [Name |-> k, Mean_ref |-> L[i].Mean, Mean_res |-> NaN]]
     ELSE [i \in 1..(Len(L) * Len(R)) |->
             [Name |-> k,
              Mean_ref |-> L[((i - 1) \div Len(R)) + 1].Mean,
              Mean_res |-> R[((i - 1) % Len(R)) + 1].Mean]]

\* Variant of OuterJoin: how='inner', the keys of both frames only.
OuterJoinMutInner(l, r) ==
  LET both == SelectSeq(Dedup(NameCol(l)), LAMBDA k : k \in Range(NameCol(r)))
  IN Flatten([i \in DOMAIN both |-> KeyRows(both[i], l, r)])

\* how='outer', sort=False: the keys in order of first appearance, the left
\* frame's first, the keys that only the right frame has after them.
OuterJoin(l, r) ==
  LET keys == Dedup(NameCol(l) \o NameCol(r))
  IN Flatten([i \in DOMAIN keys |-> KeyRows(keys[i], l, r)])

\* ---- the derived column and the filters -------------------------------------
\* Variant of Speedup: the operands of the difference exchanged.
SpeedupMutSwapped(row) == FDiv(FSub(row.Mean_res, row.Mean_ref), row.Mean_ref)

\* (comp['Mean_ref'] - comp['Mean_res']) / comp['Mean_ref'], for one row
Speedup(row) == FDiv(FSub(row.Mean_ref, row.Mean_res), row.Mean_ref)

\* Variant of WithSpeedup: missing means count as 0.
WithSpeedupMutFillZero(df) ==
  LET Fill(x) == IF x.kind = "nan" THEN Num(0, 1) ELSE x
  IN [i \in DOMAIN df |->
       [Name |-> df[i].Name, Mean_ref |-> df[i].Mean_ref, Mean_res |-> df[i].Mean_res,
        Speedup_rel |-> FDiv(FSub(Fill(df[i].Mean_ref), Fill(df[i].Mean_res)),
                             Fill(df[i].Mean_ref))]]

\* comp[speedup_col] = ...
WithSpeedup(df) ==
  [i \in DOMAIN df |->
    [Name |-> df[i].Name, Mean_ref |-> df[i].Mean_ref, Mean_res |-> df[i].Mean_res,
     Speedup_rel |-> Speedup(df[i])]]

\* Variant of SlowerRows: <= in place of <.
SlowerRowsMutInclusive(df) ==
  SelectSeq(df, LAMBDA row : ~FGt(row.Speedup_rel, FNeg(SIGNIFICANT))
                             /\ row.Speedup_rel.kind # "nan")

\* comp[comp[speedup_col] < - SIGNIFICANT]
SlowerRows(df) == SelectSeq(df, LAMBDA row : FLt(row.Speedup_rel, FNeg(SIGNIFICANT)))

\* Variant of FasterRows: the filter of the SLOWER block repeated.
FasterRowsMutCopyOfSlower(df) ==
  SelectSeq(df, LAMBDA row : FLt(row.Speedup_rel, FNeg(SIGNIFICANT)))

\* comp[comp[speedup_col] > SIGNIFICANT]
FasterRows(df) == SelectSeq(df, LAMBDA row : FGt(row.Speedup_rel, SIGNIFICANT))

RECURSIVE Reverse(_)
Reverse(s) == IF s = <<>> THEN <<>> ELSE Append(Reverse(Tail(s)), Head(s))

\* Variant of Table: the rows in reverse order.
TableMutReversed(rows) == Reverse(rows)

\* .loc[:, cols].to_string(index=False): one line per row, in the frame's order
\* (for no rows, to_string writes its "Empty DataFrame" text: no row either).
Table(rows) == rows

\* ---- the run -----------------------------------------------------------------
Init ==
  /\ pc = "line18"
  /\ argc \in 0..MaxArgs
  /\ ref = <<>>
  /\ res = <<>>
  /\ comp = <<>>
  /\ stdout = <<>>
  /\ err = "none"

\* An uncaught exception: the traceback goes to stderr and the exit status is 1.
Raise(e) ==
  /\ pc' = "failed"
  /\ err' = e

\* line 18: ref = pd.read_csv(argv[1])
ReadRef ==
  /\ pc = "line18"
  /\ IF HasArg(1)
       THEN /\ \E df \in Frames : ref' = df
            /\ pc' = "line19"
            /\ err' = err
       ELSE /\ Raise("IndexError")
            /\ ref' = ref
  /\ UNCHANGED <<argc, res, comp, stdout>>

\* line 19: res = pd.read_csv(argv[2])
ReadRes ==
  /\ pc = "line19"
  /\ IF HasArg(2)
       THEN /\ \E df \in Frames : res' = df
            /\ pc' = "line20"
            /\ err' = err
       ELSE /\ Raise("IndexError")
            /\ res' = res
  /\ UNCHANGED <<argc, ref, comp, stdout>>

\* line 20: comp = pd.merge(ref, res, on='Name', how='outer',
\*                          validate='one_to_one', suffixes=('_ref', '_res'))
Merge ==
  /\ pc = "line20"
  /\ IF Validate(ref, res)
       THEN /\ comp' = OuterJoin(ref, res)
            /\ pc' = "line23"
            /\ err' = err
       ELSE /\ Raise("MergeError")
            /\ comp' = comp
  /\ UNCHANGED <<argc, ref, res, stdout>>

\* lines 22-23: comp['Speedup_rel'] = ...
Derive ==
  /\ pc = "line23"
  /\ comp' = WithSpeedup(comp)
  /\ pc' = "line26"
  /\ UNCHANGED <<argc, ref, res, stdout, err>>

\* lines 25-27: print('SLOWER'); print(<the slower rows>)
PrintSlower ==
  /\ pc = "line26"
  /\ stdout' = Append(stdout, [label |-> "SLOWER", rows |-> Table(SlowerRows(comp))])
  /\ pc' = "line29"
  /\ UNCHANGED <<argc, ref, res, comp, err>>

\* lines 29-30: print('\nFASTER'); print(<the faster rows>)
PrintFaster ==
  /\ pc = "line29"
  /\ stdout' = Append(stdout, [label |-> "\nFASTER", rows |-> Table(FasterRows(comp))])
  /\ pc' = "done"
  /\ UNCHANGED <<argc, ref, res, comp, err>>

Next == ReadRef \/ ReadRes \/ Merge \/ Derive \/ PrintSlower \/ PrintFaster

Spec == Init /\ [][Next]_vars

\* The exit status of a run that has ended.
ExitStatus == IF pc = "failed" THEN 1 ELSE 0

\* ---- vocabulary of the properties ----------------------------------------------
Merged == pc \in {"line23", "line26", "line29", "done"}
Derived == pc \in {"line26", "line29", "done"}
SlowerPrinted == pc \in {"line29", "done"}
Done == pc = "done"

SlowerGroup == stdout[1].rows
FasterGroup == stdout[2].rows

NamesIn(df) == {df[i].Name : i \in DOMAIN df}
NoDupNames(df) == \A i, j \in DOMAIN df : df[i].Name = df[j].Name => i = j
Present(x) == x.kind # "nan"
BothPresent(row) == Present(row.Mean_ref) /\ Present(row.Mean_res)

\* s < -1/5, s > 1/5 and -1/5 <= s <= 1/5, stated on the fraction s.n / s.d.
Below(s) == s.kind = "ninf" \/ (s.kind = "num" /\ 5 * s.n < -s.d)
Above(s) == s.kind = "pinf" \/ (s.kind = "num" /\ 5 * s.n > s.d)
Within(s) == s.kind = "num" /\ -s.d <= 5 * s.n /\ 5 * s.n <= s.d

RECURSIVE IsSubseq(_, _)
IsSubseq(s, t) ==
  IF s = <<>> THEN TRUE
  ELSE IF t = <<>> THEN FALSE
  ELSE IF Head(s) = Head(t) THEN IsSubseq(Tail(s), Tail(t))
  ELSE IsSubseq(s, Tail(t))

\* C1: when each Name is unique within its dataset the merge succeeds, and the
\* joined sequence holds exactly one record for each Name of the union of the
\* two datasets and none for any other Name; in that record Mean_ref is
\* populated iff the Name is in the reference dataset and Mean_res is populated
\* iff the Name is in the result dataset.
C1_OuterJoinOneRecordPerName ==
  /\ (pc = "failed" /\ err = "MergeError") => ~(NoDupNames(ref) /\ NoDupNames(res))
  /\ Merged =>
       \A k \in Names :
         LET at == {i \in DOMAIN comp : comp[i].Name = k}
         IN /\ Cardinality(at) = IF k \in NamesIn(ref) \cup NamesIn(res) THEN 1 ELSE 0
            /\ \A i \in at :
                 /\ Present(comp[i].Mean_ref) <=> k \in NamesIn(ref)
                 /\ Present(comp[i].Mean_res) <=> k \in NamesIn(res)

C1_Witness ==
  /\ pc = "line23"
  /\ \E i, j \in DOMAIN comp :
       /\ BothPresent(comp[i])
       /\ Present(comp[j].Mean_ref) /\ ~Present(comp[j].Mean_res)

\* C2: in every joined record with both means present and Mean_ref # 0,
\* Speedup_rel is the finite value (Mean_ref - Mean_res) / Mean_ref.
C2_SpeedupFormula ==
  Derived =>
    \A i \in DOMAIN comp :
      (BothPresent(comp[i]) /\ comp[i].Mean_ref.n # 0) =>
        /\ comp[i].Speedup_rel.kind = "num"
        /\ comp[i].Speedup_rel.n * comp[i].Mean_ref.n
             = (comp[i].Mean_ref.n - comp[i].Mean_res.n) * comp[i].Speedup_rel.d

C2_Witness ==
  /\ pc = "line26"
  /\ \E i \in DOMAIN comp :
       /\ BothPresent(comp[i])
       /\ comp[i].Mean_ref.n = 5 /\ comp[i].Mean_res.n = 6
       /\ comp[i].Speedup_rel = Num(-1, 5)

\* C3: the SLOWER group is exactly the joined records with Speedup_rel < -0.2,
\* the FASTER group is exactly the joined records with Speedup_rel > 0.2, and a
\* record with -0.2 <= Speedup_rel <= 0.2 is in neither group.
C3_Classify ==
  /\ SlowerPrinted =>
       Range(SlowerGroup) = {comp[i] : i \in {j \in DOMAIN comp : Below(comp[j].Speedup_rel)}}
  /\ Done =>
       /\ Range(FasterGroup) = {comp[i] : i \in {j \in DOMAIN comp : Above(comp[j].Speedup_rel)}}
       /\ \A i \in DOMAIN comp :
            Within(comp[i].Speedup_rel) =>
              comp[i] \notin Range(SlowerGroup) \cup Range(FasterGroup)

C3_Witness ==
  /\ Done
  /\ \E i, j \in DOMAIN comp :
       /\ comp[i].Speedup_rel = Num(-1, 5)
       /\ comp[i] \notin Range(SlowerGroup)
       /\ comp[j].Speedup_rel = Num(-1, 4)
       /\ comp[j] \in Range(SlowerGroup)

\* C4: a Name that is in only one of the two datasets yields a joined record
\* whose other-side mean is null and whose Speedup_rel is NaN, and the record
\* is in neither the SLOWER nor the FASTER group.
C4_OneSidedNameUnclassified ==
  Merged =>
    \A i \in DOMAIN comp :
      LET k == comp[i].Name
          onlyRef == k \in NamesIn(ref) \ NamesIn(res)
          onlyRes == k \in NamesIn(res) \ NamesIn(ref)
      IN /\ onlyRef => ~Present(comp[i].Mean_res)
         /\ onlyRes => ~Present(comp[i].Mean_ref)
         /\ (onlyRef \/ onlyRes) =>
              /\ Derived => comp[i].Speedup_rel = NaN
              /\ SlowerPrinted => comp[i] \notin Range(SlowerGroup)
              /\ Done => comp[i] \notin Range(FasterGroup)

C4_Witness ==
  /\ Done
  /\ \E i, j \in DOMAIN comp :
       /\ comp[i].Name \in NamesIn(ref) \ NamesIn(res)
       /\ comp[j].Name \in NamesIn(res) \ NamesIn(ref)
       /\ comp[i].Mean_ref.n = 0
       /\ comp[j].Mean_res.n = 6

\* C5: when either dataset holds the same Name in two records, the run ends
\* at the merge with a MergeError and a non-zero exit status, and nothing has
\* been written to standard output.
C5_DuplicateNameFails ==
  (pc \notin {"line18", "line19", "line20"} /\ err # "IndexError"
     /\ ~(NoDupNames(ref) /\ NoDupNames(res))) =>
    /\ pc = "failed"
    /\ err = "MergeError"
    /\ ExitStatus # 0
    /\ stdout = <<>>

C5_Witness ==
  /\ pc = "failed"
  /\ err = "MergeError"
  /\ NoDupNames(ref)
  /\ ~NoDupNames(res)

C9_GroupsDisjoint ==
  Done =>
    /\ Range(SlowerGroup) \cap Range(FasterGroup) = {}
    /\ NamesIn(SlowerGroup) \cap NamesIn(FasterGroup) = {}

C9_Witness ==
  /\ Done
  /\ SlowerGroup # <<>>
  /\ FasterGroup # <<>>

\* C10: the SLOWER block is written first and the FASTER block second, and the
\* rows of each block are a subsequence of the joined sequence, each selected
\* record printed once.
C10_OutputOrder ==
  /\ Len(stdout) <= 2
  /\ Len(stdout) >= 1 =>
       /\ stdout[1].label = "SLOWER"
       /\ IsSubseq(SlowerGroup, comp)
       /\ Cardinality(Range(SlowerGroup)) = Len(SlowerGroup)
  /\ Len(stdout) = 2 =>
       /\ stdout[2].label = "\nFASTER"
       /\ IsSubseq(FasterGroup, comp)
       /\ Cardinality(Range(FasterGroup)) = Len(FasterGroup)
  /\ Done <=> Len(stdout) = 2
  /\ pc = "line29" => Len(stdout) = 1

C10_Witness ==
  /\ Done
  /\ Len(FasterGroup) = 2
  /\ comp[1].Name = "b"

====
